---- MODULE Spec2Model ----
(***************************************************************************)
(* A model of the realtor-search pipeline:                                 *)
(*   - RealtorScraper (src/app/realtor_scraper.py): the Collector, its     *)
(*     per-letter loop, the scroll pass and the card extraction;           *)
(*   - ChunkResults (src/app/chunk_scraper_results.py): the CSV chunker;   *)
(*   - RealtorScraperOrchestrator (src/app/scraper.py): the Enricher and   *)
(*     the Completer, _make_api_request and run().                         *)
(* Each component has its own specification (SpecExtract, SpecNested,      *)
(* SpecDedup, SpecCollector, SpecChunk, SpecEnrich, SpecRequest, SpecTools,*)
(* SpecRun);                                                               *)
(* the variables of the other components stay at their idle values.        *)
(*                                                                         *)
(* Python strings are modelled as sequences of tokens (a token is one      *)
(* character, or one of the prefixes "tel:" and "mailto:" taken whole), so *)
(* that strip(), startswith() and replace() are computed, not assumed.     *)
(***************************************************************************)
EXTENDS Integers, Sequences, FiniteSets, TLC

VARIABLES
    \* ---- _extract_realtors_from_json, run on its own (SpecExtract)
    exPc, exData, exResult,
    \* ---- the name-based dedup, run on its own (SpecDedup)
    ddPc, ddIn, ddOnce, ddTwice,
    \* ---- RealtorScraper.scrape (SpecCollector)
    pc,             \* where scrape() stands
    letter,         \* letters of the alphabet completed so far
    realtors,       \* scrape()'s running list of records
    driver,         \* scrape()'s driver variable: a session number, 0 for None
    sessions,       \* the state of every browser session created so far
    raised,         \* an exception was caught by scrape()'s except clause
    outFile,        \* scraper-output-all.csv
    pageRealtors,   \* _scrape_page's list of records
    lastCount,      \* _scrape_page's last_count
    noChangeCount,  \* _scrape_page's no_change_count
    scrollAttempt,  \* scroll attempts made in the current _scrape_page
    logLeft,        \* entries of the log read by this attempt still to be looked at
    lastEntryKind,  \* history: what the entry of that log last looked at was
    parsedNames,    \* history: the names of the cards parsed during the run
    \* ---- ChunkResults.chunk_results (SpecChunk)
    chPc,           \* where chunk_results stands
    chInput,        \* the input CSV: its lines, each the list of its fields
    chSize,         \* self.chunk_size
    chFieldnames,   \* fieldnames
    chAllRows,      \* all_rows
    chIdx,          \* chunk_idx
    chDisk,         \* the chunk files on disk: chDisk[n] is chunk-<n>.csv
    chFiles,        \* chunk_files, the numbers of the files returned
    \* ---- agent_2_enrichment and agent_3_completion (SpecEnrich)
    enPc,           \* where the stage stands
    enStage,        \* 2 for agent_2_enrichment, 3 for agent_3_completion
    enInput,        \* the input CSV
    enRealtors,     \* realtors, the rows read (enriched_realtors / completed_realtors
                    \* is a copy of this list holding the same dicts)
    enSelected,     \* realtors_to_enrich / realtors_to_complete
    enBatchIdx,     \* batch_idx
    enCalls,        \* batches handed to the external service so far
    enAnswers,      \* per batch: the service's answer, or that the call raised
    enSaved,        \* the batch result files written to scraper-found/
    enOutput,       \* personal-output.csv / final-output.csv
    \* ---- _make_api_request (SpecRequest)
    rqPc,           \* where _make_api_request stands
    rqInterval,     \* self.min_request_interval of the orchestrator called
    rqTools,        \* whether the caller passed tools
    rqSinceLast,    \* seconds since self.last_request_time
    rqAttempt,      \* attempt
    rqCalls,        \* calls of client.messages.create made so far
    rqLimited,      \* history: how many of them raised RateLimitError
    rqSleeps,       \* history: the time.sleep calls, in order, with their cause
    rqResult,       \* what the caller gets: a response or an exception
    \* ---- RealtorScraperOrchestrator.run (SpecRun)
    runPc,          \* where run() stands
    runLocals,      \* the local names run() has bound
    runReported,    \* the WORKFLOW COMPLETED banner was printed
    runError,       \* the exception run() raised, if any
    \* ---- _process_with_tools (SpecTools)
    ptPc,           \* where _process_with_tools stands
    ptMax,          \* max_tool_uses
    ptCount,        \* tool_use_count
    ptMessages,     \* messages: the kind of each message of the conversation
    ptRequests,     \* history: the service requests answered so far, each with
                    \* whether it carried tools, the last message it sent and
                    \* the number of tool_use blocks of its response
    ptResult        \* what the caller gets: a response or an exception

exVars == <<exPc, exData, exResult>>
ddVars == <<ddPc, ddIn, ddOnce, ddTwice>>
pageVars == <<pageRealtors, lastCount, noChangeCount, scrollAttempt, logLeft, lastEntryKind>>
coVars == <<pc, letter, realtors, driver, sessions, raised, outFile, pageVars, parsedNames>>
chVars == <<chPc, chInput, chSize, chFieldnames, chAllRows, chIdx, chDisk, chFiles>>
enVars == <<enPc, enStage, enInput, enRealtors, enSelected, enBatchIdx, enCalls,
            enAnswers, enSaved, enOutput>>
rqVars == <<rqPc, rqInterval, rqTools, rqSinceLast, rqAttempt, rqCalls, rqLimited,
            rqSleeps, rqResult>>
runVars == <<runPc, runLocals, runReported, runError>>
ptVars == <<ptPc, ptMax, ptCount, ptMessages, ptRequests, ptResult>>
orVars == <<rqVars, runVars, ptVars>>
vars == <<exVars, ddVars, coVars, chVars, enVars, orVars>>

----------------------------------------------------------------------------
(* Bounds of the model.                                                    *)

\* Most element nodes in one HTML fragment.
MaxNodes == 3
\* Longest record list given to the dedup on its own.
MaxDedupLen == 3
\* Letters of the alphabet the Collector goes through (26 in the code).
MaxLetters == 2
\* Scroll attempts of one _scrape_page (range(20) in the code).
MaxScrolls == 5
\* Most entries in one read of the performance log.
MaxLogEntries == 2
\* Most seconds between the request before and a call of _make_api_request.
MaxSinceLast == 3
\* Largest max_tool_uses _process_with_tools is called with.
MaxToolUses == 4
\* Most tool_use blocks in one response of the service.
MaxBlocks == 3
\* Most records held by scrape() and _scrape_page together.
MaxRecords == 3
\* Most lines after the header in a CSV given to the chunker.
MaxLines == 4
\* Largest chunk size tried.
MaxChunkSize == 3
\* Most records in a CSV given to the Enricher or the Completer.
MaxInput == 3
\* Records per call of the external service (self.batch_size, 20 in the code).
BatchSize == 2

----------------------------------------------------------------------------
(* Strings.                                                                *)

EmptyStr == <<>>
Space == " "

\* str.strip(): leading and trailing whitespace removed.
RECURSIVE LStrip(_)
LStrip(s) ==
    IF s # <<>> /\ Head(s) = Space THEN LStrip(Tail(s)) ELSE s

RECURSIVE RStrip(_)
RStrip(s) ==
    IF s # <<>> /\ s[Len(s)] = Space THEN RStrip(SubSeq(s, 1, Len(s) - 1)) ELSE s

Strip(s) == RStrip(LStrip(s))

\* str.startswith(prefix), for the one-token prefixes "tel:" and "mailto:".
StartsWith(s, prefix) == s # <<>> /\ Head(s) = prefix

\* str.replace(prefix, ''): every occurrence removed.
RemoveAll(s, prefix) == SelectSeq(s, LAMBDA t : t # prefix)

\* Concatenation of a sequence of strings.
RECURSIVE Concat(_)
Concat(ss) == IF ss = <<>> THEN <<>> ELSE Head(ss) \o Concat(Tail(ss))

\* The elements of a finite set of integers, in increasing order.
RECURSIVE SortedSeq(_)
SortedSeq(S) ==
    IF S = {} THEN <<>>
    ELSE LET m == CHOOSE x \in S : \A y \in S : x <= y
         IN <<m>> \o SortedSeq(S \ {m})

----------------------------------------------------------------------------
(* HTML fragments as BeautifulSoup sees them.  A fragment is the sequence  *)
(* of its element nodes in document order; node.parent is the index of the *)
(* parent element, 0 for the top of the soup.  node.class is the list of   *)
(* class tokens, node.href the href attribute (NoAttr when absent) and     *)
(* node.text the string directly inside the element, before its children. *)

NoAttr == "NoAttr"

\* Proper ancestors of node i.
RECURSIVE Ancestors(_, _)
Ancestors(doc, i) ==
    IF doc[i].parent = 0 THEN {}
    ELSE {doc[i].parent} \cup Ancestors(doc, doc[i].parent)

\* Descendant elements of node i, in document order (what find/find_all search).
Descendants(doc, i) ==
    SortedSeq({j \in 1..Len(doc) : i \in Ancestors(doc, j)})

\* 'realtor' in x.lower() or 'card' in x.lower(), for the class tokens of the model.
LooksLikeCard(cls) ==
    cls \in {"realtorCard", "realtorCardName", "realtorCardWebsite", "cards"}

\* class_=<function>: some class token satisfies it.
ClassMatchesCard(node) == \E k \in 1..Len(node.class) : LooksLikeCard(node.class[k])

\* class_='<name>': some class token equals it.
HasClass(node, cls) == \E k \in 1..Len(node.class) : node.class[k] = cls

\* The first of the elements found, 0 when none (find returning None).
FirstOf(hits) == IF hits = <<>> THEN 0 ELSE Head(hits)

\* A find that also looks at the element it is called on.
FindByClassOrSelf(doc, i, tag, cls) ==
    FirstOf(SelectSeq(<<i>> \o Descendants(doc, i),
                      LAMBDA j : doc[j].tag = tag /\ HasClass(doc[j], cls)))

\* card.find(tag, class_=cls)
FindByClass(doc, i, tag, cls) ==
    FirstOf(SelectSeq(Descendants(doc, i),
                      LAMBDA j : doc[j].tag = tag /\ HasClass(doc[j], cls)))

\* card.find('a', href=lambda x: x and x.startswith(prefix))
FindLink(doc, i, prefix) ==
    FirstOf(SelectSeq(Descendants(doc, i),
                      LAMBDA j : /\ doc[j].tag = "a"
                                 /\ doc[j].href # NoAttr
                                 /\ StartsWith(doc[j].href, prefix)))

\* elem.get_text(strip=True): the strings of the element and of its descendants
\* in document order, each stripped, the empty ones left out, joined.
GetText(doc, i) ==
    LET idx == <<i>> \o Descendants(doc, i)
    IN Concat([k \in 1..Len(idx) |-> Strip(doc[idx[k]].text)])

\* elem.get('href', '')
GetHref(node) == IF node.href = NoAttr THEN EmptyStr ELSE node.href

\* name_elem.find_parent(['div', 'article', 'li', 'section']): the nearest such
\* ancestor, 0 when none.
FindParent(doc, i) ==
    LET anc == {j \in Ancestors(doc, i) : doc[j].tag \in {"div", "article", "li", "section"}}
    IN IF anc = {} THEN 0 ELSE CHOOSE j \in anc : \A k \in anc : k <= j

\* Line 215: soup.find_all(class_=lambda x: ...).
CardsByClass(doc) ==
    SelectSeq([k \in 1..Len(doc) |-> k], LAMBDA j : ClassMatchesCard(doc[j]))

\* Lines 218-225: the fallback, parents of the name spans, each once.
RECURSIVE GroupByParent(_, _, _)
GroupByParent(doc, names, cards) ==
    IF names = <<>> THEN cards
    ELSE LET card == FindParent(doc, Head(names))
         IN GroupByParent(doc, Tail(names),
                IF card # 0 /\ \A k \in 1..Len(cards) : cards[k] # card
                THEN Append(cards, card) ELSE cards)

FindCards(doc) ==
    IF CardsByClass(doc) # <<>> THEN CardsByClass(doc)
    ELSE GroupByParent(doc,
            SelectSeq([k \in 1..Len(doc) |-> k],
                      LAMBDA j : doc[j].tag = "span" /\ HasClass(doc[j], "realtorCardName")),
            <<>>)

\* Lines 238-241.
CardName(doc, c) ==
    LET e == FindByClass(doc, c, "span", "realtorCardName")
    IN IF e # 0 THEN GetText(doc, e) ELSE EmptyStr

\* Lines 243-251.
CardPhone(doc, c) ==
    LET e == FindByClass(doc, c, "span", "TelephoneNumber")
        t == FindLink(doc, c, "tel:")
    IN IF e # 0 THEN GetText(doc, e)
       ELSE IF t # 0 THEN Strip(RemoveAll(GetHref(doc[t]), "tel:"))
       ELSE EmptyStr

\* Lines 253-256.
CardWebsite(doc, c) ==
    LET e == FindByClass(doc, c, "a", "realtorCardWebsite")
    IN IF e # 0 THEN Strip(GetHref(doc[e])) ELSE EmptyStr

\* Lines 258-261.
CardEmail(doc, c) ==
    LET e == FindLink(doc, c, "mailto:")
    IN IF e # 0 THEN Strip(RemoveAll(GetHref(doc[e]), "mailto:")) ELSE EmptyStr

\* Lines 231-261: the record built from one card.
CardRecord(doc, c) ==
    [name |-> CardName(doc, c), phone |-> CardPhone(doc, c),
     email |-> CardEmail(doc, c), website |-> CardWebsite(doc, c)]

\* Every card is added, named or not.
KeepEveryCard(r) == TRUE

\* Lines 264-265: only a card with a name is added.
KeepCard(r) == r.name # EmptyStr

\* Lines 230-265: the records of the cards of a fragment, in card order.
RecordsOfFragment(doc) ==
    LET cards == FindCards(doc)
    IN SelectSeq([k \in 1..Len(cards) |-> CardRecord(doc, cards[k])], KeepCard)

\* A decoded JSON payload: data.kind is "dict" or "other" (a list, a number);
\* a dict holds one key, whose value is a string that looks like HTML (the
\* fragment data.html), a string that does not, or no string at all.
HtmlKeys == {"d", "html", "content", "result", "data"}

\* Lines 199-207: the fragment of the payload, if it has one.
HasHtmlContent(data) ==
    /\ data.kind = "dict"
    /\ data.key \in HtmlKeys
    /\ data.value = "html"

\* _extract_realtors_from_json(data), called with realtors=None.
ExtractRealtorsFromJson(data) ==
    IF HasHtmlContent(data) THEN RecordsOfFragment(data.html) ELSE <<>>

----------------------------------------------------------------------------
(* The fragments and payloads the extraction is run on.                    *)

Elem(tag, class, href, text) ==
    [tag |-> tag, class |-> class, href |-> href, text |-> text, parent |-> 0]

\* The elements a fragment is built from: card and wrapper containers, name
\* spans (a plain name, a padded name, a blank one), a phone span, a website
\* link, a mailto: link and a tel: link.
ElemKinds ==
    { Elem("div", <<"realtorCard">>, NoAttr, <<>>),
      Elem("div", <<"cards">>, NoAttr, <<>>),
      Elem("div", <<>>, NoAttr, <<>>),
      Elem("span", <<"realtorCardName">>, NoAttr, <<"J">>),
      Elem("span", <<"realtorCardName">>, NoAttr, <<" ", "B", " ">>),
      Elem("span", <<"realtorCardName">>, NoAttr, <<" ">>),
      Elem("span", <<"TelephoneNumber">>, NoAttr, <<"5", " ">>),
      Elem("a", <<"realtorCardWebsite">>, <<"w", " ">>, <<>>),
      Elem("a", <<>>, <<"mailto:", "e">>, <<>>),
      Elem("a", <<>>, <<"tel:", "7">>, <<>>) }

\* The parents of the elements of a fragment of n elements are in document
\* order: each element hangs at the top, or inside the element before it or
\* one of that element's ancestors; only a div has children.
ParentOk(doc, i) ==
    \/ doc[i].parent = 0
    \/ /\ doc[i].parent \in {i - 1} \cup Ancestors(doc, i - 1)
       /\ doc[doc[i].parent].tag = "div"

ParentChoices(n) == {ps \in [1..n -> 0..(n - 1)] : \A i \in 1..n : ps[i] < i}

\* The fragments of n elements.
FragmentsOfLen(n) ==
    {doc \in {[i \in 1..n |-> [es[i] EXCEPT !.parent = ps[i]]] :
                es \in [1..n -> ElemKinds], ps \in ParentChoices(n)} :
        \A i \in 1..n : ParentOk(doc, i)}

\* The payloads: a dict with one key (one the code looks at, or another one)
\* whose value is an HTML string of at most n elements, a plain string or no
\* string, and a payload that is no dict.
PayloadKeys == {"d", "data", "other"}

HtmlPayload(k, doc) == [kind |-> "dict", key |-> k, value |-> "html", html |-> doc]

OtherPayloads ==
    {[kind |-> "dict", key |-> "d", value |-> v, html |-> <<>>] : v \in {"plain", "number"}}
    \cup {[kind |-> "other", key |-> "d", value |-> "number", html |-> <<>>]}

----------------------------------------------------------------------------
(* The name-based dedup of scrape(), lines 53-61.                          *)

\* A dedup that forgets a name once it has dropped a record for it.
RECURSIVE DedupForgetting(_, _)
DedupForgetting(list, seen_names) ==
    IF list = <<>> THEN <<>>
    ELSE LET r == Head(list)
         IN IF r.name # EmptyStr /\ r.name \notin seen_names
            THEN <<r>> \o DedupForgetting(Tail(list), seen_names \cup {r.name})
            ELSE DedupForgetting(Tail(list), seen_names \ {r.name})

RECURSIVE DedupFrom(_, _)
DedupFrom(list, seen_names) ==
    IF list = <<>> THEN <<>>
    ELSE LET r == Head(list)
         IN IF r.name # EmptyStr /\ r.name \notin seen_names
            THEN <<r>> \o DedupFrom(Tail(list), seen_names \cup {r.name})
            ELSE DedupFrom(Tail(list), seen_names)

Dedup(list) == DedupFrom(list, {})

\* The names of a list of records.
Names(list) == {list[k].name : k \in 1..Len(list)}

\* No two records of the list share a non-empty name.
NoDuplicateNames(list) ==
    \A i, j \in 1..Len(list) :
        (i # j /\ list[i].name # EmptyStr) => list[i].name # list[j].name

----------------------------------------------------------------------------
(* SpecExtract: _extract_realtors_from_json on every payload of the family.*)

ExtractIdle == exPc = "idle" /\ exData = <<>> /\ exResult = <<>>

ExtractInit ==
    /\ exPc = "ready"
    /\ exResult = <<>>
    /\ \/ \E n \in 0..MaxNodes : \E doc \in FragmentsOfLen(n) : \E k \in PayloadKeys :
            exData = HtmlPayload(k, doc)
       \/ exData \in OtherPayloads

Extract ==
    /\ exPc = "ready"
    /\ exResult' = ExtractRealtorsFromJson(exData)
    /\ exPc' = "done"
    /\ UNCHANGED <<exData, ddVars, coVars, chVars, enVars, orVars>>

\* Fragments with nested card elements: an outer div, whose class looks like
\* a card or which has no class, around two realtor cards. A card holds a
\* name span and, each optional, a phone span and one link.
CardShapes ==
    [name : {<<"J">>, <<"B">>},
     phone : {"none", "span"},
     link : {"none", "tel", "mailto", "web"}]

\* The elements of a card of the given shape, the card itself at index at,
\* inside the element at index outer.
CardElems(shape, outer, at) ==
    << [Elem("div", <<"realtorCard">>, NoAttr, <<>>) EXCEPT !.parent = outer],
       [Elem("span", <<"realtorCardName">>, NoAttr, shape.name) EXCEPT !.parent = at] >>
    \o (IF shape.phone = "span"
        THEN << [Elem("span", <<"TelephoneNumber">>, NoAttr, <<"5", " ">>) EXCEPT !.parent = at] >>
        ELSE <<>>)
    \o (CASE shape.link = "tel" ->
                << [Elem("a", <<>>, <<"tel:", "7">>, <<>>) EXCEPT !.parent = at] >>
          [] shape.link = "mailto" ->
                << [Elem("a", <<>>, <<"mailto:", "e">>, <<>>) EXCEPT !.parent = at] >>
          [] shape.link = "web" ->
                << [Elem("a", <<"realtorCardWebsite">>, <<"w", " ">>, <<>>) EXCEPT !.parent = at] >>
          [] OTHER -> <<>>)

NestedFragment(outerClass, first, second) ==
    LET one == CardElems(first, 1, 2)
    IN << [Elem("div", outerClass, NoAttr, <<>>) EXCEPT !.parent = 0] >>
       \o one \o CardElems(second, 1, 2 + Len(one))

\* _extract_realtors_from_json is called with a payload whose 'd' field is a
\* fragment of nested card elements.
NestedInit ==
    /\ exPc = "ready"
    /\ exResult = <<>>
    /\ \E outerClass \in {<<"cards">>, <<>>} : \E first, second \in CardShapes :
          exData = HtmlPayload("d", NestedFragment(outerClass, first, second))

----------------------------------------------------------------------------
(* SpecDedup: the dedup filter applied to a list, then to its own result.  *)

\* The records the dedup is tried on: two names and the empty name, and two
\* phones, so that which of two records of one name is kept can be seen.
DedupRecords ==
    {[name |-> n, phone |-> p, email |-> EmptyStr, website |-> EmptyStr] :
        n \in {<<"J">>, <<"B">>, EmptyStr}, p \in {<<"5">>, <<"7">>}}

RECURSIVE ListsUpTo(_, _)
ListsUpTo(S, n) ==
    IF n = 0 THEN {<<>>}
    ELSE ListsUpTo(S, n - 1)
         \cup {Append(l, x) : l \in {m \in ListsUpTo(S, n - 1) : Len(m) = n - 1}, x \in S}

DedupIdle == ddPc = "idle" /\ ddIn = <<>> /\ ddOnce = <<>> /\ ddTwice = <<>>

DedupInit ==
    /\ ddPc = "ready"
    /\ ddIn \in ListsUpTo(DedupRecords, MaxDedupLen)
    /\ ddOnce = <<>>
    /\ ddTwice = <<>>

DedupOnce ==
    /\ ddPc = "ready"
    /\ ddOnce' = Dedup(ddIn)
    /\ ddPc' = "once"
    /\ UNCHANGED <<ddIn, ddTwice, exVars, coVars, chVars, enVars, orVars>>

DedupTwice ==
    /\ ddPc = "once"
    /\ ddTwice' = Dedup(ddOnce)
    /\ ddPc' = "twice"
    /\ UNCHANGED <<ddIn, ddOnce, exVars, coVars, chVars, enVars, orVars>>

----------------------------------------------------------------------------
(* CSV files as csv.DictWriter writes them: the header and the rows, each  *)
(* row the field values in header order.                                   *)

\* A file that has not been written.
NoFile == [exists |-> FALSE, header |-> <<>>, rows |-> <<>>]
\* A missing value (DictReader's restval), and the key DictReader files the
\* surplus fields of a long row under (its restkey).
NoneVal == "None"
RestKey == "None-key"

Range(f) == {f[k] : k \in DOMAIN f}

\* DictWriter (extrasaction='raise') accepts a dict whose keys are all fieldnames.
DictWriterAccepts(fieldnames, rowdict) == DOMAIN rowdict \subseteq Range(fieldnames)

\* DictWriter._dict_to_list: rowdict.get(key, '') for each fieldname; the csv
\* writer writes None as the empty string.
DictWriterRow(fieldnames, rowdict) ==
    [k \in 1..Len(fieldnames) |->
        IF fieldnames[k] \in DOMAIN rowdict /\ rowdict[fieldnames[k]] # NoneVal
        THEN rowdict[fieldnames[k]] ELSE EmptyStr]

\* The rows alone, writeheader() forgotten.
CsvFileNoHeader(fieldnames, rowdicts) ==
    [exists |-> TRUE, header |-> <<>>,
     rows |-> [k \in 1..Len(rowdicts) |-> DictWriterRow(fieldnames, rowdicts[k])]]

CsvFile(fieldnames, rowdicts) ==
    [exists |-> TRUE, header |-> fieldnames,
     rows |-> [k \in 1..Len(rowdicts) |-> DictWriterRow(fieldnames, rowdicts[k])]]

\* The columns of scraper-output-all.csv (lines 75 and 85).
ScraperFields == <<"name", "phone", "email", "website">>

----------------------------------------------------------------------------
(* The Collector: RealtorScraper.scrape and _scrape_page.                  *)

\* The responses the browser hands to the Collector: a card of J with a
\* phone; a card with a blank name beside a card of B with a tel: link; and a
\* card of J with another phone inside a wrapper whose class also looks like
\* a card.
FragmentJ ==
    << [Elem("div", <<"realtorCard">>, NoAttr, <<>>) EXCEPT !.parent = 0],
       [Elem("span", <<"realtorCardName">>, NoAttr, <<"J">>) EXCEPT !.parent = 1],
       [Elem("span", <<"TelephoneNumber">>, NoAttr, <<"5", " ">>) EXCEPT !.parent = 1] >>

FragmentBlankAndB ==
    << [Elem("div", <<"realtorCard">>, NoAttr, <<>>) EXCEPT !.parent = 0],
       [Elem("span", <<"realtorCardName">>, NoAttr, <<" ">>) EXCEPT !.parent = 1],
       [Elem("div", <<"realtorCard">>, NoAttr, <<>>) EXCEPT !.parent = 0],
       [Elem("span", <<"realtorCardName">>, NoAttr, <<" ", "B", " ">>) EXCEPT !.parent = 3],
       [Elem("a", <<>>, <<"tel:", "7">>, <<>>) EXCEPT !.parent = 3] >>

FragmentWrappedJ ==
    << [Elem("div", <<"cards">>, NoAttr, <<>>) EXCEPT !.parent = 0],
       [Elem("div", <<"realtorCard">>, NoAttr, <<>>) EXCEPT !.parent = 1],
       [Elem("span", <<"realtorCardName">>, NoAttr, <<"J">>) EXCEPT !.parent = 2],
       [Elem("a", <<>>, <<"tel:", "7">>, <<>>) EXCEPT !.parent = 2] >>

ResponseFragments == {FragmentJ, FragmentBlankAndB, FragmentWrappedJ}

\* One entry of the performance log, as capture_api_responses treats it:
\*   malformed    json.loads of the entry raises (line 115, caught at 152)
\*   other        not a Network.responseReceived of GetRealtorResults
\*   fetch_error  Network.getResponseBody raises (line 127, caught at 149)
\*   save_error   writing the raw response raises (line 133, caught at 149)
\*   bad_json     the body is no JSON (line 139, caught at 149)
\*   payload      the body decodes to entry.data
LogEntries ==
    {[kind |-> k, data |-> <<>>] :
        k \in {"malformed", "other", "fetch_error", "save_error", "bad_json"}}
    \cup {[kind |-> "payload", data |-> HtmlPayload("d", doc)] : doc \in ResponseFragments}

\* Lines 139-147: the records one log entry adds to _scrape_page's list.
EntryRecords(entry) ==
    IF entry.kind = "payload" THEN ExtractRealtorsFromJson(entry.data) ELSE <<>>

\* History: the names of the cards of the payloads parsed from a log.
EntryCardNames(entry) ==
    IF entry.kind = "payload" /\ HasHtmlContent(entry.data)
    THEN {CardName(entry.data.html, c) : c \in Range(FindCards(entry.data.html))}
    ELSE {}

\* Line 181: the pass stops after this many scrolls in a row without a new record.
NoChangeLimit == 3

\* One attempt too many before the pass stops.
StopScrollingLate(count) == count > NoChangeLimit

StopScrolling(count) == count >= NoChangeLimit

CollectorIdle ==
    /\ pc = "idle" /\ letter = 0 /\ realtors = <<>> /\ driver = 0
    /\ sessions = <<>> /\ raised = FALSE /\ outFile = NoFile
    /\ pageRealtors = <<>> /\ lastCount = 0 /\ noChangeCount = 0 /\ scrollAttempt = 0
    /\ logLeft = 0 /\ lastEntryKind = "none"
    /\ parsedNames = {}

\* Lines 23-33: scrape() is entered.
CollectorInit ==
    /\ pc = "letter" /\ letter = 0 /\ realtors = <<>> /\ driver = 0
    /\ sessions = <<>> /\ raised = FALSE /\ outFile = NoFile
    /\ pageRealtors = <<>> /\ lastCount = 0 /\ noChangeCount = 0 /\ scrollAttempt = 0
    /\ logLeft = 0 /\ lastEntryKind = "none"
    /\ parsedNames = {}

\* Lines 98-105 and 159-160: _scrape_page starts with its own empty list.
EnterScrapePage ==
    /\ pageRealtors' = <<>>
    /\ lastCount' = 0
    /\ noChangeCount' = 0
    /\ scrollAttempt' = 0
    /\ logLeft' = 0
    /\ lastEntryKind' = "none"

\* Lines 34-36: the next letter's session is set up and assigned to driver.
SetupDriver ==
    /\ pc = "letter" /\ letter < MaxLetters
    /\ sessions' = Append(sessions, "open")
    /\ driver' = Len(sessions) + 1
    /\ pc' = "navigate"
    /\ UNCHANGED <<letter, realtors, raised, outFile, pageVars, parsedNames,
                   exVars, ddVars, chVars, enVars, orVars>>

\* Line 36: _setup_driver raises, before the browser is started (lines 287-326)
\* or after it (lines 329-400); driver is not assigned.
SetupDriverFails ==
    /\ pc = "letter" /\ letter < MaxLetters
    /\ \/ sessions' = sessions
       \/ sessions' = Append(sessions, "open")
    /\ pc' = "except"
    /\ UNCHANGED <<letter, realtors, driver, raised, outFile, pageVars, parsedNames,
                   exVars, ddVars, chVars, enVars, orVars>>

\* Lines 39-47: network monitoring is enabled, the page is opened and the
\* first _scrape_page is entered.
Navigate ==
    /\ pc = "navigate"
    /\ EnterScrapePage
    /\ pc' = "scroll"
    /\ UNCHANGED <<letter, realtors, driver, sessions, raised, outFile, parsedNames,
                   exVars, ddVars, chVars, enVars, orVars>>

\* Lines 39-45: execute_cdp_cmd or get raises.
NavigateFails ==
    /\ pc = "navigate"
    /\ pc' = "except"
    /\ UNCHANGED <<letter, realtors, driver, sessions, raised, outFile, pageVars,
                   parsedNames, exVars, ddVars, chVars, enVars, orVars>>

\* Lines 164-165 and 111: one scroll attempt of _scrape_page begins: the page
\* is scrolled and the performance log is read.
Scroll ==
    /\ pc = "scroll"
    /\ \E n \in 0..MaxLogEntries : logLeft' = n
    /\ lastEntryKind' = "none"
    /\ pc' = "capture"
    /\ UNCHANGED <<letter, realtors, driver, sessions, raised, outFile, pageRealtors,
                   lastCount, noChangeCount, scrollAttempt, parsedNames, exVars, ddVars, chVars, enVars, orVars>>

\* Lines 164 and 111: execute_script or get_log raises; nothing in
\* _scrape_page catches it, and its frame is left.
ScrollFails ==
    /\ pc = "scroll"
    /\ EnterScrapePage
    /\ pc' = "except"
    /\ UNCHANGED <<letter, realtors, driver, sessions, raised, outFile,
                   parsedNames, exVars, ddVars, chVars, enVars, orVars>>

\* The entries whose handling raises inside capture_api_responses.
ErrorKinds == {"malformed", "fetch_error", "save_error", "bad_json"}

\* The exception of an entry is not caught: it leaves _scrape_page.
CaptureEntryAborts ==
    /\ pc = "capture" /\ logLeft > 0
    /\ \E entry \in LogEntries :
        /\ Len(realtors) + Len(pageRealtors) + Len(EntryRecords(entry)) <= MaxRecords
        /\ pageRealtors' = pageRealtors \o EntryRecords(entry)
        /\ parsedNames' = parsedNames \cup EntryCardNames(entry)
        /\ lastEntryKind' = entry.kind
        /\ pc' = IF entry.kind \in ErrorKinds THEN "except" ELSE pc
    /\ logLeft' = logLeft - 1
    /\ UNCHANGED <<letter, realtors, driver, sessions, raised, outFile,
                   lastCount, noChangeCount, scrollAttempt, exVars, ddVars, chVars, enVars, orVars>>

\* Lines 113-153: the next entry of the log is looked at; the records of a
\* payload are added to the list, any other entry is passed over.
CaptureEntry ==
    /\ pc = "capture" /\ logLeft > 0
    /\ \E entry \in LogEntries :
        /\ Len(realtors) + Len(pageRealtors) + Len(EntryRecords(entry)) <= MaxRecords
        /\ pageRealtors' = pageRealtors \o EntryRecords(entry)
        /\ parsedNames' = parsedNames \cup EntryCardNames(entry)
        /\ lastEntryKind' = entry.kind
    /\ logLeft' = logLeft - 1
    /\ UNCHANGED <<pc, letter, realtors, driver, sessions, raised, outFile,
                   lastCount, noChangeCount, scrollAttempt, exVars, ddVars, chVars, enVars, orVars>>

\* Lines 170-183: the attempt is counted; the pass stops after NoChangeLimit
\* attempts in a row without a new record, or when the attempts are used up.
CountScroll ==
    /\ pc = "capture" /\ logLeft = 0
    /\ LET count == IF Len(pageRealtors) > lastCount THEN 0 ELSE noChangeCount + 1
       IN /\ noChangeCount' = count
          /\ pc' = IF StopScrolling(count) \/ scrollAttempt + 1 = MaxScrolls
                   THEN "page_done" ELSE "scroll"
    /\ lastCount' = IF Len(pageRealtors) > lastCount THEN Len(pageRealtors) ELSE lastCount
    /\ scrollAttempt' = scrollAttempt + 1
    /\ lastEntryKind' = "none"
    /\ UNCHANGED <<letter, realtors, driver, sessions, raised, outFile, pageRealtors,
                   logLeft, parsedNames, exVars, ddVars, chVars, enVars, orVars>>

\* The records of the pass are held back from realtors.
NextPageHoldsBack ==
    /\ pc = "page_done"
    /\ Len(pageRealtors) > 0
    /\ realtors' = realtors
    /\ EnterScrapePage
    /\ pc' = "scroll"
    /\ UNCHANGED <<letter, driver, sessions, raised, outFile, parsedNames, exVars, ddVars, chVars, enVars, orVars>>

\* Lines 48-51: _scrape_page returned records: they are added to realtors,
\* the next-page control is tried (_click_next catches its own errors) and
\* _scrape_page is entered again.
NextPage ==
    /\ pc = "page_done"
    /\ Len(pageRealtors) > 0
    /\ realtors' = realtors \o pageRealtors
    /\ EnterScrapePage
    /\ pc' = "scroll"
    /\ UNCHANGED <<letter, driver, sessions, raised, outFile, parsedNames, exVars, ddVars, chVars, enVars, orVars>>

\* Lines 48 and 53-62: _scrape_page returned nothing: the letter's loop ends
\* and realtors is replaced by its dedup.
LetterDone ==
    /\ pc = "page_done"
    /\ Len(pageRealtors) = 0
    /\ realtors' = Dedup(realtors)
    /\ pc' = "close"
    /\ UNCHANGED <<letter, driver, sessions, raised, outFile, pageVars, parsedNames,
                   exVars, ddVars, chVars, enVars, orVars>>

\* Lines 65-67: the letter's browser window is closed; on to the next letter.
CloseDriver ==
    /\ pc = "close"
    /\ sessions' = IF driver # 0 THEN [sessions EXCEPT ![driver] = "closed"] ELSE sessions
    /\ letter' = letter + 1
    /\ pc' = "letter"
    /\ UNCHANGED <<realtors, driver, raised, outFile, pageVars, parsedNames, exVars, ddVars, chVars, enVars, orVars>>

\* Line 66: driver.close() raises.
CloseDriverFails ==
    /\ pc = "close"
    /\ driver # 0
    /\ pc' = "except"
    /\ UNCHANGED <<letter, realtors, driver, sessions, raised, outFile, pageVars,
                   parsedNames, exVars, ddVars, chVars, enVars, orVars>>

\* Line 34: the alphabet is used up; the try block ends without an exception.
LettersDone ==
    /\ pc = "letter" /\ letter = MaxLetters
    /\ pc' = "finally"
    /\ UNCHANGED <<letter, realtors, driver, sessions, raised, outFile, pageVars,
                   parsedNames, exVars, ddVars, chVars, enVars, orVars>>

\* The exception is caught inside the loop, which goes on with the next letter.
HandleExceptionResumes ==
    /\ pc = "except"
    /\ raised' = TRUE
    /\ outFile' = CsvFile(ScraperFields, <<>>)
    /\ letter' = letter + 1
    /\ pc' = "letter"
    /\ UNCHANGED <<realtors, driver, sessions, pageVars, parsedNames, exVars, ddVars, chVars, enVars, orVars>>

\* Lines 69-76: the exception is caught and a CSV with the header alone is written.
HandleException ==
    /\ pc = "except"
    /\ raised' = TRUE
    /\ outFile' = CsvFile(ScraperFields, <<>>)
    /\ pc' = "finally"
    /\ UNCHANGED <<letter, realtors, driver, sessions, pageVars, parsedNames, exVars, ddVars, chVars, enVars, orVars>>

\* Lines 78-81: the session driver refers to, if any, is quit.
Finally ==
    /\ pc = "finally"
    /\ sessions' = IF driver # 0 THEN [sessions EXCEPT ![driver] = "quit"] ELSE sessions
    /\ pc' = "save"
    /\ UNCHANGED <<letter, realtors, driver, raised, outFile, pageVars, parsedNames,
                   exVars, ddVars, chVars, enVars, orVars>>

\* Lines 83-95: realtors is written to the output file and scrape() returns.
SaveCsv ==
    /\ pc = "save"
    /\ outFile' = CsvFile(ScraperFields, realtors)
    /\ pc' = "returned"
    /\ UNCHANGED <<letter, realtors, driver, sessions, raised, pageVars, parsedNames,
                   exVars, ddVars, chVars, enVars, orVars>>

----------------------------------------------------------------------------
(* csv.DictReader.                                                         *)

\* DictReader.__next__ on one non-blank line: the fields are zipped with the
\* fieldnames (of two equal fieldnames the later one wins), the surplus fields
\* of a long line go under the restkey, and the fieldnames a short line does
\* not reach get the restval, None.
DictReaderRow(fieldnames, line) ==
    LET lf == Len(fieldnames)
        lr == Len(line)
        last(key) == CHOOSE k \in 1..lf :
                        /\ fieldnames[k] = key
                        /\ \A m \in 1..lf : fieldnames[m] = key => m <= k
    IN [key \in Range(fieldnames) \cup (IF lf < lr THEN {RestKey} ELSE {}) |->
            IF key = RestKey /\ lf < lr THEN SubSeq(line, lf + 1, lr)
            ELSE IF last(key) <= lr THEN line[last(key)]
            ELSE NoneVal]

\* list(reader): blank lines are skipped.
DictReaderRows(fieldnames, lines) ==
    LET data == SelectSeq(lines, LAMBDA line : line # <<>>)
    IN [k \in 1..Len(data) |-> DictReaderRow(fieldnames, data[k])]

----------------------------------------------------------------------------
(* The Chunker: ChunkResults.chunk_results.                                *)

\* The number of full chunks, the last, partial one forgotten.
NumFullChunks(n, size) == n \div size

\* Line 32: (len(all_rows) + chunk_size - 1) // chunk_size
NumChunks(n, size) == (n + size - 1) \div size

Min(a, b) == IF a <= b THEN a ELSE b

\* Lines 39-41: all_rows[start_idx:end_idx] of chunk chunk_idx.
ChunkRows(rows, size, idx) ==
    SubSeq(rows, idx * size + 1, Min(idx * size + size, Len(rows)))

\* writer.writerows(chunk_rows) stops at the first row DictWriter rejects:
\* the rows before it are in the file.
RECURSIVE AcceptedPrefix(_, _)
AcceptedPrefix(fieldnames, rowdicts) ==
    IF rowdicts = <<>> \/ ~DictWriterAccepts(fieldnames, Head(rowdicts)) THEN <<>>
    ELSE <<Head(rowdicts)>> \o AcceptedPrefix(fieldnames, Tail(rowdicts))

\* The headers of the CSVs tried: one column, two columns, and two columns of
\* the same name.
ChunkHeaders == {<<"a">>, <<"a", "b">>, <<"a", "a">>}

\* Line k of a CSV, n fields long: every field of the file is different, so
\* that a row or a field that moves shows.
Line(k, n) == [j \in 1..n |-> <<k, j>>]

\* The CSVs tried: the empty file, and a header followed by up to MaxLines
\* lines, each blank, shorter than the header, as long, or one field longer.
ChunkInputs ==
    {<<>>} \cup
    UNION {UNION {{<<h>> \o [k \in 1..n |-> Line(k, lens[k])] :
                        lens \in [1..n -> 0..(Len(h) + 1)]} :
                  n \in 0..MaxLines} :
           h \in ChunkHeaders}

ChunkIdle ==
    /\ chPc = "idle" /\ chInput = <<>> /\ chSize = 0 /\ chFieldnames = <<>>
    /\ chAllRows = <<>> /\ chIdx = 0 /\ chDisk = <<>> /\ chFiles = <<>>

\* ChunkResults(chunk_size).chunk_results(input_csv) is called.
ChunkInit ==
    /\ chPc = "read"
    /\ chInput \in ChunkInputs
    /\ chSize \in 1..MaxChunkSize
    /\ chFieldnames = <<>> /\ chAllRows = <<>> /\ chIdx = 0
    /\ chDisk = <<>> /\ chFiles = <<>>

\* Lines 24-35: the input is read; an empty file has no fieldnames (None) and
\* no rows.
ChunkRead ==
    /\ chPc = "read"
    /\ chFieldnames' = IF chInput = <<>> THEN NoneVal ELSE Head(chInput)
    /\ chAllRows' = IF chInput = <<>> THEN <<>>
                    ELSE DictReaderRows(Head(chInput), Tail(chInput))
    /\ chIdx' = 0
    /\ chPc' = "loop"
    /\ UNCHANGED <<chInput, chSize, chDisk, chFiles, exVars, ddVars, coVars, enVars, orVars>>

\* Lines 38-53: one chunk is written, header first, and its file is noted.
WriteChunk ==
    /\ chPc = "loop"
    /\ chIdx < NumChunks(Len(chAllRows), chSize)
    /\ LET chunk_rows == ChunkRows(chAllRows, chSize, chIdx)
       IN /\ \A k \in 1..Len(chunk_rows) : DictWriterAccepts(chFieldnames, chunk_rows[k])
          /\ chDisk' = Append(chDisk, CsvFile(chFieldnames, chunk_rows))
    /\ chFiles' = Append(chFiles, chIdx + 1)
    /\ chIdx' = chIdx + 1
    /\ UNCHANGED <<chPc, chInput, chSize, chFieldnames, chAllRows, exVars, ddVars, coVars, enVars, orVars>>

\* Lines 47-50: DictWriter rejects a row of the chunk (ValueError): the file
\* keeps the header and the rows written before it, and chunk_results is left
\* with the exception.
WriteChunkFails ==
    /\ chPc = "loop"
    /\ chIdx < NumChunks(Len(chAllRows), chSize)
    /\ LET chunk_rows == ChunkRows(chAllRows, chSize, chIdx)
       IN /\ \E k \in 1..Len(chunk_rows) : ~DictWriterAccepts(chFieldnames, chunk_rows[k])
          /\ chDisk' = Append(chDisk,
                CsvFile(chFieldnames, AcceptedPrefix(chFieldnames, chunk_rows)))
    /\ chPc' = "raised"
    /\ UNCHANGED <<chInput, chSize, chFieldnames, chAllRows, chIdx, chFiles,
                   exVars, ddVars, coVars, enVars, orVars>>

\* Lines 55-56: every chunk is written; chunk_files is returned.
ChunkReturn ==
    /\ chPc = "loop"
    /\ chIdx = NumChunks(Len(chAllRows), chSize)
    /\ chPc' = "returned"
    /\ UNCHANGED <<chInput, chSize, chFieldnames, chAllRows, chIdx, chDisk, chFiles,
                   exVars, ddVars, coVars, enVars, orVars>>

----------------------------------------------------------------------------
(* The Enricher and the Completer: agent_2_enrichment, agent_3_completion. *)

\* Lines 162 and 217: the columns of personal-output.csv.
PersonalFields == <<"name", "phone", "email", "website", "extra_emails">>
\* Lines 250 and 309: the columns of final-output.csv.
FinalFields == <<"name", "phone", "email", "website", "extra_emails", "confidence">>

OutputFields(stage) == IF stage = 2 THEN PersonalFields ELSE FinalFields
\* The column each stage adds, and what it puts there (lines 166, 222, 254, 314).
AddedField(stage) == IF stage = 2 THEN "extra_emails" ELSE "confidence"
AddedDefault(stage) == IF stage = 2 THEN EmptyStr ELSE <<"1.0">>

\* r.get(key, "")
Get(r, key) == IF key \in DOMAIN r THEN r[key] ELSE EmptyStr

\* A selection that compares the fields as they are, untrimmed.
NeedsUntrimmed(r) == Get(r, "email") = EmptyStr /\ Get(r, "website") # EmptyStr

\* A selection that does not ask for a website.
NeedsEmailOnly(r) == Strip(Get(r, "email")) = EmptyStr

\* Lines 151-154: missing email and a website; line 242: missing email.
NeedsEnrichment(r) == Strip(Get(r, "email")) = EmptyStr /\ Strip(Get(r, "website")) # EmptyStr
NeedsCompletion(r) == Strip(Get(r, "email")) = EmptyStr

Selected(stage, r) == IF stage = 2 THEN NeedsEnrichment(r) ELSE NeedsCompletion(r)

\* The list written at the end holds the selected records alone.
StartWithSelected(all, selected) == selected

\* Lines 171 and 259: the list written at the end starts as all the realtors.
StartWithAll(all, selected) == all

\* r[key] = value
WithField(r, key, value) ==
    [k \in DOMAIN r \cup {key} |-> IF k = key THEN value ELSE r[k]]

\* Lines 165-167 and 253-255: the column is set on every record.
SetAdded(stage, r) == WithField(r, AddedField(stage), AddedDefault(stage))

\* Lines 220-223 and 312-315: the column is set where it is missing.
DefaultAdded(stage, r) ==
    IF AddedField(stage) \in DOMAIN r THEN r ELSE SetAdded(stage, r)

\* Lines 172 and 260.
TotalBatches(n) == (n + BatchSize - 1) \div BatchSize

\* Lines 175-177 and 263-265: the records of batch batch_idx.
Batch(selected, idx) ==
    SubSeq(selected, idx * BatchSize + 1, Min(idx * BatchSize + BatchSize, Len(selected)))

\* The values a field of an input record takes: empty, blank, or a value.
FieldValues(v) == {EmptyStr, <<" ">>, <<v>>}

\* Record k of an input CSV; its name tells the records apart.
InputRecord(k, email, website) ==
    [name |-> <<"r", ToString(k)>>, phone |-> <<"5">>, email |-> email, website |-> website]

\* The input of a stage: the CSV written by the stage before it, with up to
\* MaxInput records.
StageInputs(stage) ==
    UNION {{CsvFile(IF stage = 2 THEN ScraperFields ELSE PersonalFields,
                    [k \in 1..n |-> InputRecord(k, emails[k], websites[k])]) :
                emails \in [1..n -> FieldValues("e")],
                websites \in [1..n -> FieldValues("w")]} :
           n \in 0..MaxInput}

\* The external service's answer to a batch: the records of the batch it
\* gives an email for.
Answers(batch) == SUBSET {batch[k].name : k \in 1..Len(batch)}

EnrichIdle ==
    /\ enPc = "idle" /\ enStage = 0 /\ enInput = NoFile /\ enRealtors = <<>>
    /\ enSelected = <<>> /\ enBatchIdx = 0 /\ enCalls = 0 /\ enAnswers = <<>>
    /\ enSaved = <<>> /\ enOutput = NoFile

\* agent_2_enrichment(input_file) or agent_3_completion(input_file) is called.
EnrichInit ==
    /\ enPc = "read"
    /\ enStage \in {2, 3}
    /\ enInput \in StageInputs(enStage)
    /\ enRealtors = <<>> /\ enSelected = <<>> /\ enBatchIdx = 0 /\ enCalls = 0
    /\ enAnswers = <<>> /\ enSaved = <<>> /\ enOutput = NoFile

\* Lines 145-156 and 236-244: the input is read and the records to work on
\* are selected.
EnrichRead ==
    /\ enPc = "read"
    /\ LET rows == DictReaderRows(enInput.header, enInput.rows)
           selected == SelectSeq(rows, LAMBDA r : Selected(enStage, r))
       IN /\ enRealtors' = rows
          /\ enSelected' = selected
          /\ enPc' = IF Len(selected) = 0 THEN "copy" ELSE "batches"
    /\ enBatchIdx' = 0
    /\ UNCHANGED <<enStage, enInput, enCalls, enAnswers, enSaved, enOutput,
                   exVars, ddVars, coVars, chVars, orVars>>

\* Lines 158-168 and 246-256: nothing to work on: the input is copied with
\* the added column.
EnrichCopy ==
    /\ enPc = "copy"
    /\ enOutput' = CsvFile(OutputFields(enStage),
                           [k \in 1..Len(enRealtors) |-> SetAdded(enStage, enRealtors[k])])
    /\ enPc' = "returned"
    /\ UNCHANGED <<enStage, enInput, enRealtors, enSelected, enBatchIdx, enCalls,
                   enAnswers, enSaved, exVars, ddVars, coVars, chVars, orVars>>

\* Lines 174-209 and 262-301: a batch is sent to the service, which answers;
\* the answer is saved under scraper-found/.
BatchAnswered ==
    /\ enPc = "batches"
    /\ enBatchIdx < TotalBatches(Len(enSelected))
    /\ \E answer \in Answers(Batch(enSelected, enBatchIdx)) :
        /\ enAnswers' = Append(enAnswers, [ok |-> TRUE, found |-> answer])
        /\ enSaved' = Append(enSaved, [batch |-> enBatchIdx, text |-> answer])
    /\ enCalls' = enCalls + 1
    /\ enBatchIdx' = enBatchIdx + 1
    /\ UNCHANGED <<enPc, enStage, enInput, enRealtors, enSelected, enOutput,
                   exVars, ddVars, coVars, chVars, orVars>>

\* The exception of a batch leaves the stage: no later batch, no output.
BatchFailsAborts ==
    /\ enPc = "batches"
    /\ enBatchIdx < TotalBatches(Len(enSelected))
    /\ enAnswers' = Append(enAnswers, [ok |-> FALSE, found |-> {}])
    /\ enCalls' = enCalls + 1
    /\ enPc' = "raised"
    /\ UNCHANGED <<enStage, enInput, enRealtors, enSelected, enBatchIdx, enSaved, enOutput,
                   exVars, ddVars, coVars, chVars, orVars>>

\* Lines 211-212 and 303-304: the call, or saving its answer, raises; the
\* exception is reported and the loop goes on.
BatchFails ==
    /\ enPc = "batches"
    /\ enBatchIdx < TotalBatches(Len(enSelected))
    /\ enAnswers' = Append(enAnswers, [ok |-> FALSE, found |-> {}])
    /\ enCalls' = enCalls + 1
    /\ enBatchIdx' = enBatchIdx + 1
    /\ UNCHANGED <<enPc, enStage, enInput, enRealtors, enSelected, enSaved, enOutput,
                   exVars, ddVars, coVars, chVars, orVars>>

\* Lines 214-226 and 306-318: after the last batch the list is written, the
\* added column set where it is missing.
EnrichWrite ==
    /\ enPc = "batches"
    /\ enBatchIdx = TotalBatches(Len(enSelected))
    /\ LET enriched == StartWithAll(enRealtors, enSelected)
       IN enOutput' = CsvFile(OutputFields(enStage),
                              [k \in 1..Len(enriched) |-> DefaultAdded(enStage, enriched[k])])
    /\ enPc' = "returned"
    /\ UNCHANGED <<enStage, enInput, enRealtors, enSelected, enBatchIdx, enCalls,
                   enAnswers, enSaved, exVars, ddVars, coVars, chVars, orVars>>

----------------------------------------------------------------------------
(* RealtorScraperOrchestrator._make_api_request, and the same method of    *)
(* RealtorScraperOrchestrator_AI, which differs in min_request_interval.   *)

\* scraper.py line 53 and line 54.
MaxRetries == 3
BaseDelay == 10
\* self.min_request_interval: scraper.py line 37, scraper_ai_version.py line 31.
MinRequestInterval == 1
MinRequestIntervalAI == 3

RECURSIVE Pow2(_)
Pow2(n) == IF n = 0 THEN 1 ELSE 2 * Pow2(n - 1)

\* The same wait before every retry.
ConstantDelay(attempt) == BaseDelay

\* Line 74: base_delay * (2 ** attempt)
BackoffDelay(attempt) == BaseDelay * Pow2(attempt)

\* Line 73: attempt < max_retries - 1
MayRetry(attempt) == attempt < MaxRetries - 1

RequestIdle ==
    /\ rqPc = "idle" /\ rqInterval = 0 /\ rqTools = FALSE /\ rqSinceLast = 0
    /\ rqAttempt = 0 /\ rqCalls = 0 /\ rqLimited = 0 /\ rqSleeps = <<>>
    /\ rqResult = "none"

\* _make_api_request(messages, max_tokens, tools) is called, some seconds
\* after the request before it.
RequestInit ==
    /\ rqPc = "throttle"
    /\ rqInterval \in {MinRequestInterval, MinRequestIntervalAI}
    /\ rqTools \in BOOLEAN
    /\ rqSinceLast \in 0..MaxSinceLast
    /\ rqAttempt = 0 /\ rqCalls = 0 /\ rqLimited = 0 /\ rqSleeps = <<>>
    /\ rqResult = "none"

\* Lines 43-49 and 58: _throttle_request sleeps until min_request_interval
\* has passed since the last request and notes the time.
Throttle ==
    /\ rqPc = "throttle"
    /\ rqSleeps' = IF rqSinceLast < rqInterval
                   THEN Append(rqSleeps, [cause |-> "throttle",
                                          seconds |-> rqInterval - rqSinceLast])
                   ELSE rqSleeps
    /\ rqSinceLast' = 0
    /\ rqPc' = "create"
    /\ UNCHANGED <<rqInterval, rqTools, rqAttempt, rqCalls, rqLimited, rqResult,
                   runVars, ptVars, exVars, ddVars, coVars, chVars, enVars>>

\* Lines 60-70: the service answers; the response is returned.
CreateReturns ==
    /\ rqPc = "create"
    /\ rqCalls' = rqCalls + 1
    /\ rqResult' = "response"
    /\ rqPc' = "returned"
    /\ UNCHANGED <<rqInterval, rqTools, rqSinceLast, rqAttempt, rqLimited, rqSleeps,
                   runVars, ptVars, exVars, ddVars, coVars, chVars, enVars>>

\* Lines 69 and 72-78: the service signals a rate limit: wait and go round
\* again, or, on the last attempt, raise the error again.
CreateRateLimited ==
    /\ rqPc = "create"
    /\ rqCalls' = rqCalls + 1
    /\ rqLimited' = rqLimited + 1
    /\ IF MayRetry(rqAttempt)
       THEN /\ rqSleeps' = Append(rqSleeps, [cause |-> "backoff",
                                             seconds |-> BackoffDelay(rqAttempt)])
            /\ rqSinceLast' = BackoffDelay(rqAttempt)
            /\ rqAttempt' = rqAttempt + 1
            /\ rqPc' = "throttle"
            /\ UNCHANGED rqResult
       ELSE /\ rqResult' = "RateLimitError"
            /\ rqPc' = "raised"
            /\ UNCHANGED <<rqSleeps, rqSinceLast, rqAttempt>>
    /\ UNCHANGED <<rqInterval, rqTools, runVars, ptVars, exVars, ddVars, coVars, chVars, enVars>>

\* Line 69: the call raises another exception, which no clause catches.
CreateFails ==
    /\ rqPc = "create"
    /\ rqCalls' = rqCalls + 1
    /\ rqResult' = "error"
    /\ rqPc' = "raised"
    /\ UNCHANGED <<rqInterval, rqTools, rqSinceLast, rqAttempt, rqLimited, rqSleeps,
                   runVars, ptVars, exVars, ddVars, coVars, chVars, enVars>>

----------------------------------------------------------------------------
(* RealtorScraperOrchestrator.run.                                         *)

\* The names the report of lines 349-353 reads.
ReportNames == {"elapsed", "scraper_output", "enrichment_output", "final_output"}

RunIdle ==
    /\ runPc = "idle" /\ runLocals = {} /\ runReported = FALSE /\ runError = "none"

\* Lines 320-335: run() is entered and calls agent_1_selenium_scraper, which
\* calls RealtorScraper().scrape().
RunInit ==
    /\ runPc = "agent1" /\ runLocals = {"start_time"}
    /\ runReported = FALSE /\ runError = "none"

\* Lines 335-344: the Collector has returned; the calls of agent_2_enrichment
\* and agent_3_completion are commented out, so that neither is made and
\* neither enrichment_output nor final_output is bound.
Agent1Returns ==
    /\ runPc = "agent1"
    /\ pc = "returned"
    /\ runLocals' = runLocals \cup {"scraper_output", "elapsed"}
    /\ runPc' = "report"
    /\ UNCHANGED <<runReported, runError, rqVars, ptVars, exVars, ddVars, coVars, chVars, enVars>>

\* Lines 346-359: the banner is printed, then the report lines; a name that
\* is not bound raises NameError, which the except clause reports and raises
\* again.
Report ==
    /\ runPc = "report"
    /\ runReported' = TRUE
    /\ IF ReportNames \subseteq runLocals
       THEN runPc' = "returned" /\ UNCHANGED runError
       ELSE runPc' = "raised" /\ runError' = "NameError"
    /\ UNCHANGED <<runLocals, rqVars, ptVars, exVars, ddVars, coVars, chVars, enVars>>

----------------------------------------------------------------------------
(* RealtorScraperOrchestrator._process_with_tools, and the same method of  *)
(* RealtorScraperOrchestrator_AI, which has the same loop.                 *)

\* Every response with a tool_use block counts once, whatever it holds.
CountResponses(count, blocks) == count + 1

\* Lines 105-107: tool_use_count += 1 for every tool_use block of the response.
CountToolUses(count, blocks) == count + blocks

\* Line 93: any(block.type == "tool_use" for block in response.content)
HasToolUse(blocks) == blocks > 0

ToolsIdle ==
    /\ ptPc = "idle" /\ ptMax = 0 /\ ptCount = 0 /\ ptMessages = <<>>
    /\ ptRequests = <<>> /\ ptResult = "none"

\* Lines 80-87: _process_with_tools(messages, max_tokens, max_tool_uses) is
\* called with the prompt as the only message.
ToolsInit ==
    /\ ptPc = "loop"
    /\ ptMax \in 0..MaxToolUses
    /\ ptCount = 0
    /\ ptMessages = <<"prompt">>
    /\ ptRequests = <<>>
    /\ ptResult = "none"

\* Lines 89-116, up to the next service request: the request with tools is
\* answered. A response without tool_use is returned; otherwise it is added
\* to the conversation and its tool_use blocks are counted, and when the count
\* has reached max_tool_uses the final-answer message is added.
LoopRequest ==
    /\ ptPc = "loop"
    /\ ptCount < ptMax
    /\ \E blocks \in 0..MaxBlocks :
        /\ ptRequests' = Append(ptRequests,
                [tools |-> TRUE, last |-> ptMessages[Len(ptMessages)], blocks |-> blocks])
        /\ IF ~HasToolUse(blocks)
           THEN /\ ptResult' = "response"
                /\ ptPc' = "returned"
                /\ UNCHANGED <<ptCount, ptMessages>>
           ELSE /\ ptCount' = CountToolUses(ptCount, blocks)
                /\ IF ptCount' >= ptMax
                   THEN /\ ptMessages' = ptMessages \o <<"assistant", "final">>
                        /\ ptPc' = "final"
                   ELSE /\ ptMessages' = Append(ptMessages, "assistant")
                        /\ ptPc' = "loop"
                /\ UNCHANGED ptResult
    /\ UNCHANGED <<ptMax, rqVars, runVars, exVars, ddVars, coVars, chVars, enVars>>

\* Line 90: _make_api_request raises (a rate limit after the last retry, or
\* another error); nothing in _process_with_tools catches it.
LoopRequestFails ==
    /\ ptPc = "loop"
    /\ ptCount < ptMax
    /\ ptResult' = "error"
    /\ ptPc' = "raised"
    /\ UNCHANGED <<ptMax, ptCount, ptMessages, ptRequests,
                   rqVars, runVars, exVars, ddVars, coVars, chVars, enVars>>

\* Lines 115-116: the request without tools is answered and its response
\* returned, whatever it holds.
FinalRequest ==
    /\ ptPc = "final"
    /\ \E blocks \in 0..MaxBlocks :
        ptRequests' = Append(ptRequests,
                [tools |-> FALSE, last |-> ptMessages[Len(ptMessages)], blocks |-> blocks])
    /\ ptResult' = "response"
    /\ ptPc' = "returned"
    /\ UNCHANGED <<ptMax, ptCount, ptMessages,
                   rqVars, runVars, exVars, ddVars, coVars, chVars, enVars>>

\* Line 115: _make_api_request raises.
FinalRequestFails ==
    /\ ptPc = "final"
    /\ ptResult' = "error"
    /\ ptPc' = "raised"
    /\ UNCHANGED <<ptMax, ptCount, ptMessages, ptRequests,
                   rqVars, runVars, exVars, ddVars, coVars, chVars, enVars>>

\* Lines 89 and 118: the loop condition fails and response is returned; when
\* the loop never ran, response is not bound (UnboundLocalError).
LoopExit ==
    /\ ptPc = "loop"
    /\ ~(ptCount < ptMax)
    /\ IF ptRequests = <<>>
       THEN ptResult' = "UnboundLocalError" /\ ptPc' = "raised"
       ELSE ptResult' = "response" /\ ptPc' = "returned"
    /\ UNCHANGED <<ptMax, ptCount, ptMessages, ptRequests,
                   rqVars, runVars, exVars, ddVars, coVars, chVars, enVars>>

OrchestratorIdle == RequestIdle /\ RunIdle /\ ToolsIdle

----------------------------------------------------------------------------
(* Specifications.                                                         *)

InitExtract == ExtractInit /\ DedupIdle /\ CollectorIdle /\ ChunkIdle /\ EnrichIdle /\ OrchestratorIdle
NextExtract == Extract
SpecExtract == InitExtract /\ [][NextExtract]_vars

InitNested == NestedInit /\ DedupIdle /\ CollectorIdle /\ ChunkIdle /\ EnrichIdle /\ OrchestratorIdle
NextNested == Extract
SpecNested == InitNested /\ [][NextNested]_vars

InitDedup == DedupInit /\ ExtractIdle /\ CollectorIdle /\ ChunkIdle /\ EnrichIdle /\ OrchestratorIdle
NextDedup == DedupOnce \/ DedupTwice
SpecDedup == InitDedup /\ [][NextDedup]_vars

InitCollector == CollectorInit /\ ExtractIdle /\ DedupIdle /\ ChunkIdle /\ EnrichIdle /\ OrchestratorIdle
NextCollector ==
    \/ SetupDriver \/ SetupDriverFails
    \/ Navigate \/ NavigateFails
    \/ Scroll \/ ScrollFails \/ CaptureEntry \/ CountScroll
    \/ NextPage \/ LetterDone
    \/ CloseDriver \/ CloseDriverFails
    \/ LettersDone \/ HandleException \/ Finally \/ SaveCsv
SpecCollector == InitCollector /\ [][NextCollector]_vars

InitChunk == ChunkInit /\ ExtractIdle /\ DedupIdle /\ CollectorIdle /\ EnrichIdle /\ OrchestratorIdle
NextChunk == ChunkRead \/ WriteChunk \/ WriteChunkFails \/ ChunkReturn
SpecChunk == InitChunk /\ [][NextChunk]_vars

InitRequest ==
    /\ RequestInit /\ RunIdle /\ ToolsIdle
    /\ ExtractIdle /\ DedupIdle /\ CollectorIdle /\ ChunkIdle /\ EnrichIdle
NextRequest == Throttle \/ CreateReturns \/ CreateRateLimited \/ CreateFails
SpecRequest == InitRequest /\ [][NextRequest]_vars

InitRun ==
    /\ RunInit /\ RequestIdle /\ ToolsIdle /\ CollectorInit
    /\ ExtractIdle /\ DedupIdle /\ ChunkIdle /\ EnrichIdle
NextRun == NextCollector \/ Agent1Returns \/ Report
SpecRun == InitRun /\ [][NextRun]_vars

InitTools ==
    /\ ToolsInit /\ RequestIdle /\ RunIdle
    /\ ExtractIdle /\ DedupIdle /\ CollectorIdle /\ ChunkIdle /\ EnrichIdle
NextTools ==
    LoopRequest \/ LoopRequestFails \/ FinalRequest \/ FinalRequestFails \/ LoopExit
SpecTools == InitTools /\ [][NextTools]_vars

InitEnrich == EnrichInit /\ ExtractIdle /\ DedupIdle /\ CollectorIdle /\ ChunkIdle /\ OrchestratorIdle
NextEnrich == EnrichRead \/ EnrichCopy \/ BatchAnswered \/ BatchFails \/ EnrichWrite
SpecEnrich == InitEnrich /\ [][NextEnrich]_vars

----------------------------------------------------------------------------
(* Claims.                                                                 *)

\* The fragment of the example: one element of class realtorCard holding one
\* name span with a name and one phone span, no links, and no other element
\* whose class looks like a card.
NameSpans(doc) ==
    {j \in 1..Len(doc) : doc[j].tag = "span" /\ HasClass(doc[j], "realtorCardName")}
PhoneSpans(doc) ==
    {j \in 1..Len(doc) : doc[j].tag = "span" /\ HasClass(doc[j], "TelephoneNumber")}
RealtorCards(doc) == {j \in 1..Len(doc) : HasClass(doc[j], "realtorCard")}

OneCardShape(doc) ==
    /\ Cardinality(RealtorCards(doc)) = 1
    /\ Cardinality(NameSpans(doc)) = 1
    /\ Cardinality(PhoneSpans(doc)) = 1
    /\ \A j \in 1..Len(doc) : doc[j].tag # "a"
    /\ \A j \in 1..Len(doc) :
          ClassMatchesCard(doc[j]) => j \in RealtorCards(doc) \cup NameSpans(doc)
    /\ \A c \in RealtorCards(doc) :
          \A j \in NameSpans(doc) \cup PhoneSpans(doc) : c \in Ancestors(doc, j)
    /\ \A j \in NameSpans(doc) : Strip(doc[j].text) # EmptyStr

\* C9: for a payload whose 'd' field is a fragment with one realtorCard element
\* holding a name span and a phone span and no links, the extraction returns
\* exactly one record, with that name and phone and with email and website
\* empty; the name span, itself matched as a card, adds no second record.
C9_OneCardOneRecord ==
    (exPc = "done" /\ exData.kind = "dict" /\ exData.key = "d"
        /\ exData.value = "html" /\ OneCardShape(exData.html))
    => LET doc == exData.html
           n == CHOOSE j \in NameSpans(doc) : TRUE
           t == CHOOSE j \in PhoneSpans(doc) : TRUE
       IN exResult = <<[name |-> Strip(doc[n].text), phone |-> Strip(doc[t].text),
                        email |-> EmptyStr, website |-> EmptyStr]>>

\* The example payload itself has been parsed into its one record.
C9_Witness ==
    /\ exPc = "done"
    /\ exData = [kind |-> "dict", key |-> "d", value |-> "html", html |->
          << [tag |-> "div", class |-> <<"realtorCard">>, href |-> NoAttr,
              text |-> <<>>, parent |-> 0],
             [tag |-> "span", class |-> <<"realtorCardName">>, href |-> NoAttr,
              text |-> <<"J">>, parent |-> 1],
             [tag |-> "span", class |-> <<"TelephoneNumber">>, href |-> NoAttr,
              text |-> <<"5", " ">>, parent |-> 1] >>]
    /\ exResult = <<[name |-> <<"J">>, phone |-> <<"5">>,
                     email |-> EmptyStr, website |-> EmptyStr]>>

\* C8: the name-based dedup is idempotent: applied to its own result it
\* returns that same list, the same records in the same order.
C8_DedupIdempotent == ddPc = "twice" => ddTwice = ddOnce

\* The dedup has dropped something the first time, and has been applied twice.
C8_Witness ==
    /\ ddPc = "twice"
    /\ Len(ddOnce) >= 1
    /\ Len(ddOnce) < Len(ddIn)
    /\ \E i, j \in 1..Len(ddIn) : i # j /\ ddIn[i].name = ddIn[j].name /\ ddIn[i].name # EmptyStr

\* The names in the rows of the output file.
OutputNames == {outFile.rows[k][1] : k \in 1..Len(outFile.rows)}

\* C1: whenever scrape() has finished, whether every letter completed or an
\* exception ended the letter loop, no two rows of scraper-output-all.csv
\* have the same non-empty name.
C1_NoDuplicateNamesInOutput ==
    pc = "returned" =>
        \A i, j \in 1..Len(outFile.rows) :
            (i # j /\ outFile.rows[i][1] # EmptyStr) => outFile.rows[i][1] # outFile.rows[j][1]

\* C2: if an exception was raised inside the per-letter loop, then when
\* scrape() returns the output file holds the header row alone, whatever had
\* been accumulated before the exception.
C2_EmptyCsvAfterException ==
    (pc = "returned" /\ raised) =>
        (outFile.exists /\ outFile.header = ScraperFields /\ outFile.rows = <<>>)

\* C6: a parsed card gives a record of the Collector's output if and only if
\* its name is not empty: no record without a name is ever in the extraction
\* result, in the running list or in the output file, every record's name is
\* the name of a parsed card, and when a run has completed all its letters the
\* names in the output file are exactly the non-empty names of the cards parsed.
C6_RecordIffNamed ==
    /\ EmptyStr \notin Names(pageRealtors) \cup Names(realtors)
    /\ Names(pageRealtors) \cup Names(realtors) \subseteq parsedNames
    /\ outFile.exists => EmptyStr \notin OutputNames /\ OutputNames \subseteq parsedNames
    /\ (pc = "returned" /\ ~raised) => OutputNames = parsedNames \ {EmptyStr}

\* A run has completed all letters after parsing a nameless card and a named one.
C6_Witness ==
    /\ pc = "returned" /\ ~raised
    /\ EmptyStr \in parsedNames
    /\ OutputNames = {<<"B">>, <<"J">>}

\* C7 as stated: once a scroll pass has ended on three scroll attempts in a row
\* without a new record, the next thing the Collector does is leave the letter:
\* no further scroll, next-page click or page scrape for that letter.
C7_LetterEndsAfterThreeEmptyScrolls ==
    [][(pc = "page_done" /\ noChangeCount >= NoChangeLimit) => pc' = "close"]_vars

\* C7, amended: three scroll attempts in a row without a new record end the
\* scroll pass without error; if the pass found no record at all the letter
\* ends (dedup, then the browser is closed and the next letter follows), and
\* if it had found records they are added to the running list and another
\* pass, after a next-page click, is run for the same letter.
C7_ThreeEmptyScrollsEndThePass ==
    [][/\ (pc = "capture" /\ pc' # "capture" /\ noChangeCount' >= NoChangeLimit)
            => pc' = "page_done"
       /\ (pc = "page_done" /\ noChangeCount >= NoChangeLimit /\ pageRealtors = <<>>)
            => (pc' = "close" /\ letter' = letter /\ realtors' = Dedup(realtors))
       /\ (pc = "page_done" /\ noChangeCount >= NoChangeLimit /\ pageRealtors # <<>>)
            => (pc' = "scroll" /\ letter' = letter /\ scrollAttempt' = 0
                /\ realtors' = realtors \o pageRealtors)
       /\ (pc = "close" /\ pc' # "except") => (pc' = "letter" /\ letter' = letter + 1)
      ]_vars

\* A pass that had found records has ended on three empty scroll attempts.
C7_Witness ==
    /\ pc = "page_done"
    /\ noChangeCount = NoChangeLimit
    /\ pageRealtors # <<>>
    /\ scrollAttempt > NoChangeLimit

\* The data rows of the input CSV: the lines after the header that are not blank.
InputRows ==
    IF chInput = <<>> THEN <<>> ELSE SelectSeq(Tail(chInput), LAMBDA line : line # <<>>)

\* ceil(n / size), by its definition.
CeilDiv(n, size) == CHOOSE k \in 0..n : k * size >= n /\ (k = 0 \/ (k - 1) * size < n)

RECURSIVE SumOfLens(_)
SumOfLens(ss) == IF ss = <<>> THEN 0 ELSE Len(Head(ss)) + SumOfLens(Tail(ss))

\* chunk_results returned, having written ceil(N/S) files chunk-1 .. chunk-k,
\* each with the source header and at most S rows, S in all but the last, N
\* rows in all, and the rows of the files in file order are the rows expected.
ChunkedInto(expected) ==
    LET n == Len(InputRows)
        k == CeilDiv(n, chSize)
    IN /\ chPc = "returned"
       /\ chFiles = [i \in 1..k |-> i]
       /\ Len(chDisk) = k
       /\ \A i \in 1..k :
            /\ chDisk[i].exists
            /\ chDisk[i].header = Head(chInput)
            /\ Len(chDisk[i].rows) <= chSize
            /\ i < k => Len(chDisk[i].rows) = chSize
       /\ SumOfLens([i \in 1..k |-> chDisk[i].rows]) = n
       /\ Concat([i \in 1..k |-> chDisk[i].rows]) = expected

\* C3 as stated: for every input CSV with N data rows and every chunk size
\* S >= 1, chunk_results writes ceil(N/S) files chunk-1.csv .. chunk-k.csv, each
\* with the source header and at most S rows (S in all but the last), N rows in
\* all, whose rows in file order are the original rows.
C3_ChunksReproduceEveryCsv ==
    chPc \in {"returned", "raised"} => ChunkedInto(InputRows)

\* The header has no column name twice and no data row has more fields than
\* the header.
InputFits ==
    /\ chInput # <<>> =>
          \A i, j \in 1..Len(Head(chInput)) : i # j => Head(chInput)[i] # Head(chInput)[j]
    /\ \A k \in 1..Len(InputRows) : Len(InputRows[k]) <= Len(Head(chInput))

\* A row as long as the header, the missing fields empty.
Padded(line, n) == [j \in 1..n |-> IF j <= Len(line) THEN line[j] ELSE EmptyStr]

\* C3, amended: the same, for every input CSV whose header has no column name
\* twice and whose data rows have no more fields than the header; a row with
\* fewer fields than the header comes out with the missing fields empty.
C3_ChunksReproduceFittingCsv ==
    (chPc \in {"returned", "raised"} /\ InputFits)
    => ChunkedInto([k \in 1..Len(InputRows) |->
                        Padded(InputRows[k], Len(Head(chInput)))])

\* Four rows have been chunked by three: a full chunk and a last one of one row.
C3_Witness ==
    /\ chPc = "returned"
    /\ InputFits
    /\ Len(InputRows) = 4
    /\ chSize = 3
    /\ Len(chDisk) = 2
    /\ Len(chDisk[2].rows) = 1

\* The value row k of a CSV file has in the column called key.
Field(file, k, key) ==
    file.rows[k][CHOOSE c \in 1..Len(file.header) : file.header[c] = key]

\* C4: every record of the input CSV with a non-empty email is written by
\* agent_2_enrichment and agent_3_completion with exactly the same email,
\* whatever the batch calls did, and no record is removed from the output.
C4_EmailsKept ==
    enPc = "returned" =>
        /\ enOutput.exists
        /\ Len(enOutput.rows) = Len(enInput.rows)
        /\ \A k \in 1..Len(enInput.rows) :
              /\ Field(enOutput, k, "name") = Field(enInput, k, "name")
              /\ Field(enInput, k, "email") # EmptyStr
                    => Field(enOutput, k, "email") = Field(enInput, k, "email")

\* A stage has returned with a record that had an email, after one batch was
\* answered with emails and another one failed.
C4_Witness ==
    /\ enPc = "returned"
    /\ \E k \in 1..Len(enInput.rows) : Field(enInput, k, "email") # EmptyStr
    /\ \E b \in 1..Len(enAnswers) : enAnswers[b].ok /\ enAnswers[b].found # {}
    /\ \E b \in 1..Len(enAnswers) : ~enAnswers[b].ok

\* The output of agent_2_enrichment is the input, row for row, with an empty
\* extra_emails column, and the service was never called.
CopiedWithoutCall ==
    /\ enCalls = 0
    /\ enOutput.exists
    /\ enOutput.header = PersonalFields
    /\ enOutput.rows = [k \in 1..Len(enInput.rows) |-> Append(enInput.rows[k], EmptyStr)]

\* C5 as stated: if no input record has both an empty email and a non-empty
\* website, agent_2_enrichment calls the service not once and writes the same
\* rows in the same order with the same name, phone, email and website, each
\* with an empty extra_emails.
C5_CopyWhenNoneHasEmptyEmailAndWebsite ==
    (enPc = "returned" /\ enStage = 2
        /\ \A k \in 1..Len(enInput.rows) :
              ~(Field(enInput, k, "email") = EmptyStr /\ Field(enInput, k, "website") # EmptyStr))
    => CopiedWithoutCall

\* C5, amended: the same, when no input record has both an email that is
\* empty after trimming and a website that is not empty after trimming.
C5_CopyWhenNoneQualifies ==
    (enPc = "returned" /\ enStage = 2
        /\ \A k \in 1..Len(enInput.rows) :
              ~(Strip(Field(enInput, k, "email")) = EmptyStr
                /\ Strip(Field(enInput, k, "website")) # EmptyStr))
    => CopiedWithoutCall

\* agent_2_enrichment has copied an input holding a record with an email and
\* a website and a record with neither.
C5_Witness ==
    /\ enPc = "returned" /\ enStage = 2
    /\ enCalls = 0
    /\ \E k \in 1..Len(enInput.rows) :
          Field(enInput, k, "email") = <<"e">> /\ Field(enInput, k, "website") = <<"w">>
    /\ \E k \in 1..Len(enInput.rows) :
          Field(enInput, k, "email") = EmptyStr /\ Field(enInput, k, "website") = EmptyStr
    /\ Len(enOutput.rows) = Len(enInput.rows)

\* C10: after a batch call of agent_2_enrichment has succeeded, a record of
\* the batch the service gave an email for has an email in personal-output.csv.
C10_AnswerMergedIntoOutput ==
    (enPc = "returned" /\ enStage = 2) =>
        \A b \in 1..Len(enAnswers) :
            enAnswers[b].ok =>
                \A k \in 1..Len(enOutput.rows) :
                    Field(enOutput, k, "name") \in enAnswers[b].found
                        => Strip(Field(enOutput, k, "email")) # EmptyStr

\* The names of the records of batch b (counted from 1) of the stage.
BatchNames(b) ==
    LET batch == Batch(enSelected, b - 1)
    IN {batch[k].name : k \in 1..Len(batch)}

\* C11: in agent_2_enrichment and agent_3_completion an exception raised
\* while batch i is processed does not leave the stage and does not keep the
\* later batches from being attempted; the output CSV is written with every
\* input record, the records of the failed batch unchanged.
C11_FailedBatchContained ==
    /\ enPc # "raised"
    /\ (enPc = "returned" /\ enSelected # <<>>) =>
        /\ Len(enAnswers) = TotalBatches(Len(enSelected))
        /\ enOutput.exists
        /\ Len(enOutput.rows) = Len(enInput.rows)
        /\ \A b \in 1..Len(enAnswers) :
              ~enAnswers[b].ok =>
                  \A k \in 1..Len(enInput.rows) :
                      Field(enInput, k, "name") \in BatchNames(b)
                          => enOutput.rows[k]
                                = Append(enInput.rows[k], AddedDefault(enStage))

\* A stage has returned after its first batch failed and its second one was
\* answered.
C11_Witness ==
    /\ enPc = "returned"
    /\ Len(enAnswers) = 2
    /\ ~enAnswers[1].ok
    /\ enAnswers[2].ok
    /\ BatchNames(1) # {}
    /\ enOutput.exists

\* Row k of the input has an email that is empty after trimming and a
\* website that is not.
Qualifies(k) ==
    /\ Strip(Field(enInput, k, "email")) = EmptyStr
    /\ Strip(Field(enInput, k, "website")) # EmptyStr

\* C16: agent_2_enrichment selects a record exactly when its email is empty
\* after trimming and its website is not; every record not selected is
\* written to personal-output.csv at the same position with the same name,
\* phone, email and website and an empty extra_emails, and the output has as
\* many rows as the input, in the same order.
C16_SelectedIffQualifies ==
    enStage = 2 =>
        /\ enPc \in {"copy", "batches", "returned"} =>
              /\ {enSelected[i].name : i \in 1..Len(enSelected)}
                    = {Field(enInput, k, "name") :
                          k \in {j \in 1..Len(enInput.rows) : Qualifies(j)}}
              /\ Len(enSelected)
                    = Cardinality({j \in 1..Len(enInput.rows) : Qualifies(j)})
        /\ enPc = "returned" =>
              /\ enOutput.exists
              /\ enOutput.header = PersonalFields
              /\ Len(enOutput.rows) = Len(enInput.rows)
              /\ \A k \in 1..Len(enInput.rows) :
                    /\ Field(enOutput, k, "name") = Field(enInput, k, "name")
                    /\ ~Qualifies(k)
                          => enOutput.rows[k] = Append(enInput.rows[k], EmptyStr)

\* agent_2_enrichment has returned after an answered batch; the input held a
\* selected record whose email was blank, not empty, and a record passed over
\* because its website was blank.
C16_Witness ==
    /\ enStage = 2 /\ enPc = "returned"
    /\ \E b \in 1..Len(enAnswers) : enAnswers[b].ok /\ enAnswers[b].found # {}
    /\ \E k \in 1..Len(enInput.rows) :
          Qualifies(k) /\ Field(enInput, k, "email") = <<" ">>
    /\ \E k \in 1..Len(enInput.rows) :
          ~Qualifies(k) /\ Field(enInput, k, "email") = EmptyStr
             /\ Field(enInput, k, "website") = <<" ">>

\* C13: every browser session the Collector created is closed or quit when
\* scrape() returns, on every exit path, and at no point are two sessions
\* open at once.
C13_SessionsReleased ==
    /\ pc = "returned" => \A i \in 1..Len(sessions) : sessions[i] # "open"
    /\ Cardinality({i \in 1..Len(sessions) : sessions[i] = "open"}) <= 1

\* C14 as stated: an exception raised for one letter is contained to that
\* letter, the remaining letters are still processed: whenever scrape()
\* returns, every letter has been gone through.
C14_RemainingLettersProcessed ==
    pc = "returned" => letter = MaxLetters

\* C14, amended: an exception raised while setting up, navigating or
\* scraping for a letter is not contained to that letter: it ends the letter
\* loop, and from then on no letter is completed and no session is set up.
C14_ExceptionEndsTheLetterLoop ==
    [][(pc = "except" \/ raised)
          => /\ letter' = letter
             /\ Len(sessions') = Len(sessions)
             /\ pc' \in {"finally", "save", "returned"}]_vars

\* scrape() has returned after an exception in the second letter, the
\* letters after it untouched.
C14_Witness ==
    /\ pc = "returned" /\ raised
    /\ letter = 1
    /\ letter < MaxLetters
    /\ Len(sessions) = 2

\* C15: whenever scrape() returns, after a run without exception or after an
\* exception caught in the letter loop, scraper-output-all.csv exists and
\* holds the header name,phone,email,website followed by zero or more rows,
\* each with one value per column.
C15_OutputFileWellFormed ==
    pc = "returned" =>
        /\ outFile.exists
        /\ outFile.header = <<"name", "phone", "email", "website">>
        /\ \A k \in 1..Len(outFile.rows) :
              /\ Len(outFile.rows[k]) = Len(outFile.header)
              /\ \A c \in 1..Len(outFile.header) : outFile.rows[k][c] # NoneVal

\* scrape() has returned after an exception before any record was found.
C15_Witness ==
    /\ pc = "returned" /\ raised
    /\ realtors = <<>>
    /\ outFile.exists /\ outFile.rows = <<>>

\* s is a prefix of t.
IsPrefix(s, t) == Len(s) <= Len(t) /\ SubSeq(t, 1, Len(s)) = s

\* C17 as stated: the running list realtors is left alone while a letter's
\* page loop runs; it changes only when that loop has completed.
C17_OuterResultUnchangedDuringLetter ==
    [][~(pc = "page_done" /\ pc' = "close") => realtors' = realtors]_vars

\* C17, amended: the records of a page pass are held in _scrape_page's own
\* list and are appended to the running list as soon as the pass returns,
\* while the letter's page loop is still running; only the dedup waits for
\* the end of the page loop. An exception leaves the running list as it is,
\* so the records of a letter cut short by an exception stay in it.
C17_PassRecordsJoinRunningList ==
    [][/\ (pc \in {"scroll", "capture"} /\ pc' # "except")
            => (realtors' = realtors /\ IsPrefix(pageRealtors, pageRealtors'))
       /\ (pc = "page_done" /\ pageRealtors # <<>>)
            => (realtors' = realtors \o pageRealtors /\ letter' = letter /\ pc' = "scroll")
       /\ (pc = "page_done" /\ pageRealtors = <<>>)
            => (realtors' = Dedup(realtors) /\ pc' = "close")
       /\ (pc' = "except" \/ pc = "except" \/ raised) => realtors' = realtors
      ]_vars

\* An exception has cut the first letter short after one of its passes had
\* returned records: they are in the running list.
C17_Witness ==
    /\ pc = "except"
    /\ letter = 0
    /\ realtors # <<>>

\* C18: while _scrape_page goes through the network log, an entry whose
\* fetching, saving or parsing fails, or that is malformed, is skipped: the
\* entries left in the same log are still looked at, the records found so far
\* are kept, and the error leaves neither _scrape_page nor the run.
C18_BadEntrySkipped ==
    [][(pc = "capture" /\ logLeft > 0)
          => /\ pc' = "capture"
             /\ logLeft' = logLeft - 1
             /\ IsPrefix(pageRealtors, pageRealtors')
             /\ lastEntryKind' \in ErrorKinds => pageRealtors' = pageRealtors
             /\ realtors' = realtors /\ raised' = raised]_vars

\* An entry has just failed, with records found before it and entries of
\* the same log still to look at.
C18_Witness ==
    /\ pc = "capture"
    /\ lastEntryKind \in ErrorKinds
    /\ logLeft > 0
    /\ pageRealtors # <<>>

\* The records of the realtor cards of a fragment, each taken from its own
\* card: the elements of class realtorCard.
OwnRecords(doc) ==
    {CardRecord(doc, c) : c \in {j \in 1..Len(doc) : HasClass(doc[j], "realtorCard")}}

\* C20: every record _extract_realtors_from_json returns has the phone, the
\* website and the email of the card its name is from, also when the cards
\* are inside an element whose class looks like a card; and so has every
\* record the first-occurrence dedup of scrape() keeps.
C20_FieldsFromOneCard ==
    exPc = "done" =>
        /\ \A k \in 1..Len(exResult) : exResult[k] \in OwnRecords(exData.html)
        /\ \A k \in 1..Len(Dedup(exResult)) : Dedup(exResult)[k] \in OwnRecords(exData.html)

\* The waits between the attempts, in order.
Backoffs == SelectSeq(rqSleeps, LAMBDA w : w.cause = "backoff")

\* C12: _make_api_request calls the service at most 3 times; after the k-th
\* rate-limit signal (k = 1, 2) it waits 10 * 2^(k-1) seconds and tries
\* again, it returns the first response without a further call, and on the
\* third rate-limit signal in a row it raises the rate-limit error.
C12_ThreeAttemptsWithBackoff ==
    /\ rqCalls <= 3
    /\ \A k \in 1..Len(Backoffs) : Backoffs[k].seconds = 10 * Pow2(k - 1)
    /\ rqPc \in {"throttle", "create"} => Len(Backoffs) = rqLimited /\ rqCalls = rqLimited
    /\ rqLimited \in {1, 2} => Len(Backoffs) = rqLimited
    /\ rqPc = "returned" => rqResult = "response" /\ rqCalls = rqLimited + 1
    /\ rqLimited = 3 => rqPc = "raised" /\ rqResult = "RateLimitError" /\ Len(Backoffs) = 2
    /\ (rqPc = "raised" /\ rqResult = "RateLimitError") => rqLimited = 3 /\ rqCalls = 3

\* The third rate-limit signal in a row has been raised to the caller, after
\* waits of 10 and 20 seconds.
C12_Witness ==
    /\ rqPc = "raised" /\ rqResult = "RateLimitError"
    /\ rqCalls = 3
    /\ Len(Backoffs) = 2 /\ Backoffs[1].seconds = 10 /\ Backoffs[2].seconds = 20

\* C19: when the Collector stage has returned normally, run() has called
\* neither agent_2_enrichment nor agent_3_completion, reports the completion
\* of the workflow and returns without raising an exception.
C19_RunReturnsNormally ==
    /\ enPc = "idle"
    /\ runPc # "raised"
    /\ runReported => runPc = "returned" /\ runError = "none"

\* The tool_use blocks of the responses to the first n requests.
RECURSIVE BlocksUpTo(_)
BlocksUpTo(n) == IF n = 0 THEN 0 ELSE ptRequests[n].blocks + BlocksUpTo(n - 1)

\* C21: for every max_tool_uses >= 1 and every sequence of responses,
\* _process_with_tools ends after at most max_tool_uses + 1 answered
\* requests; it returns the first response without a tool_use block, and once
\* the tool_use blocks counted reach max_tool_uses it sends exactly one more
\* request, without tools and with the final-answer message as its last
\* message, and returns the response to it.
C21_ToolLoopBounded ==
    ptMax >= 1 =>
        LET n == Len(ptRequests) IN
        /\ n <= ptMax + 1
        /\ \A i \in 1..n :
              \* a request goes out only while every response so far used a tool
              /\ \A j \in 1..(i - 1) : ptRequests[j].blocks > 0
              \* with tools while the count is below max_tool_uses, and
              \* without tools, after the final-answer message, once it is not
              /\ ptRequests[i].tools <=> BlocksUpTo(i - 1) < ptMax
              /\ ~ptRequests[i].tools => (ptRequests[i].last = "final" /\ i = n)
              /\ ptRequests[i].tools => ptRequests[i].last # "final"
        /\ ptPc = "loop" => (BlocksUpTo(n) < ptMax /\ ptCount = BlocksUpTo(n))
        /\ ptPc = "final" => (BlocksUpTo(n) >= ptMax /\ ptRequests[n].tools)
        /\ ptPc = "returned" =>
              /\ ptResult = "response"
              /\ n >= 1
              /\ \/ ptRequests[n].tools /\ ptRequests[n].blocks = 0
                 \/ ~ptRequests[n].tools /\ BlocksUpTo(n - 1) >= ptMax
        /\ ptResult = "UnboundLocalError" => FALSE

\* With max_tool_uses 3 the tool uses reached the limit on the third request
\* and the response to the fourth request, the one without tools, was returned.
C21_Witness ==
    /\ ptPc = "returned"
    /\ ptMax = 3
    /\ Len(ptRequests) = 4
    /\ ~ptRequests[4].tools
    /\ ptRequests[4].last = "final"

====
